---- MODULE Spec2Model ----
(***************************************************************************)
(* Model of WritingToolApp (src/Windows_and_Linux/WritingToolApp.py): the  *)
(* selection capture, the request cancellation on a hotkey, and the        *)
(* streaming replacement of the selected text.                             *)
(*                                                                         *)
(* Texts are sequences of one-character strings, so that strip(), split(), *)
(* slicing and concatenation are computed as Python computes them.         *)
(*                                                                         *)
(* Threads: the GUI (Qt main) thread runs the slots on_hotkey_pressed,     *)
(* _show_popup, replace_text and show_message_box, one queued event at a   *)
(* time; the hotkey listener thread and the worker threads started by      *)
(* process_option only emit signals, which Qt queues to the GUI thread     *)
(* (event_queue), and the worker also writes output_queue at line 329.     *)
(*                                                                         *)
(* Spec takes each slot as one step, SpecStream is one request whose        *)
(* response is cut into chunks in every way, and SpecGui takes the slots   *)
(* statement by statement, with the other threads' steps between them.     *)
(***************************************************************************)
EXTENDS Integers, Sequences, FiniteSets, TLC

\* ------------------------------------------------------------- bounds
MaxTriggers == 2
MaxRequests == 2
MaxQueue == 2
MaxLate == 1
MaxFaults == 1
MaxPad == 2
MaxPastes == 2
ChunkCountCap == 3
MaxDepth == 3

\* ------------------------------------------------------------- texts
error_message ==
  << "E","R","R","O","R","_","T","E","X","T","_",
     "I","N","C","O","M","P","A","T","I","B","L","E","_",
     "W","I","T","H","_","R","E","Q","U","E","S","T" >>

None == << "N","o","n","e","?" >>

IsSpace(c) == c \in {" ", "\n", "\t"}

RECURSIVE lstrip(_)
lstrip(s) == IF s # <<>> /\ IsSpace(Head(s)) THEN lstrip(Tail(s)) ELSE s

RECURSIVE rstrip(_)
rstrip(s) ==
  IF s # <<>> /\ IsSpace(s[Len(s)]) THEN rstrip(SubSeq(s, 1, Len(s) - 1)) ELSE s

strip_unstripped(s) == s

\* str.strip(): leading and trailing whitespace removed.
strip(s) == rstrip(lstrip(s))

RECURSIVE rstrip_newline(_)
\* str.rstrip('\n'): trailing newlines removed, nothing else.
rstrip_newline(s) ==
  IF s # <<>> /\ s[Len(s)] = "\n"
    THEN rstrip_newline(SubSeq(s, 1, Len(s) - 1))
    ELSE s

\* ''.join(s.split()): every whitespace character removed.
join_split(s) == SelectSeq(s, LAMBDA c : ~IsSpace(c))

\* s[:n]
slice_to(s, n) == SubSeq(s, 1, IF n < Len(s) THEN n ELSE Len(s))

decision_needs_text(queue) ==
  LET current_output == strip(queue)
      clean_current == join_split(current_output)
      clean_error == join_split(error_message)
  IN  IF current_output = error_message THEN "report"
      ELSE IF /\ Len(current_output) <= Len(error_message)
              /\ clean_current # <<>>
              /\ clean_current = slice_to(clean_error, Len(clean_current))
           THEN "hold"
           ELSE "paste"

\* Lines 356-367 of replace_text: what is done with the accumulated output.
\*   "report": the stripped output equals error_message (357-358)
\*   "hold"  : it may still become error_message (362-367)
\*   "paste" : lines 369-399
decision(queue) ==
  LET current_output == strip(queue)
      clean_current == join_split(current_output)
      clean_error == join_split(error_message)
  IN  IF current_output = error_message THEN "report"
      ELSE IF /\ Len(current_output) <= Len(error_message)
              /\ clean_current = slice_to(clean_error, Len(clean_current))
           THEN "hold"
           ELSE "paste"

\* ------------------------------------------------------------- inputs
Hello == << "H","e","l","l","o" >>
World == << " ","w","o","r","l","d" >>
OK == << "O","K" >>
Hi == << "H","i" >>
PartialSentinel == slice_to(error_message, 23)   \* "ERROR_TEXT_INCOMPATIBLE"

\* What the backend may stream for one request in Spec, as its chunks.
Responses ==
  { << Hello, World >>, << PartialSentinel >>, << OK >>, << error_message >> }

\* What the foreground application may have selected at a capture.
Selections == { <<>>, << " " >>, << "a" >> }

\* (option, custom_change) as the popup passes them to process_option.
OptionInputs ==
  { << "Relecture", None >>, << "Custom", None >>, << "Custom", << "x" >> >> }

ClipInit == << "c" >>

RECURSIVE Pads(_)
\* The whitespace runs of length at most n.
Pads(n) ==
  IF n = 0 THEN { <<>> }
  ELSE Pads(n - 1) \cup
       { p \o << c >> : p \in { q \in Pads(n - 1) : Len(q) = n - 1 }, c \in {" ", "\n"} }

SentinelStreams == { l \o error_message \o t : l \in Pads(MaxPad), t \in Pads(MaxPad) }

ErrorWord == slice_to(error_message, 5)   \* "ERROR"

\* The responses of SpecStream, each split into chunks in every way.
StreamTexts ==
  SentinelStreams \cup
    { Hello \o World, Hi \o error_message, error_message \o << "." >>, ErrorWord,
      Hi \o << "\n" >> \o OK, OK \o << " " >> }

\* ------------------------------------------------------------- state
VARIABLES
  output_queue,    \* self.output_queue
  queue_src,       \* history: the requests whose chunks are in output_queue
  clipboard,       \* the system clipboard (pyperclip)
  popup_window,    \* self.popup_window: [open, selected_text]
  event_queue,     \* Qt's queued signal emissions to the GUI thread
  requests,        \* the worker threads of process_option and their streams
  nreq,            \* the number of process_option calls so far
  triggers,        \* the number of hotkey presses so far
  pastes,          \* history: the simulated Ctrl+V, in order
  notifications,   \* history: the message boxes shown, in order
  faults,          \* the number of clipboard exceptions raised so far
  last_clip,       \* history: the clipboard around the last clipboard operation
  last_capture,    \* history: the last get_selected_text call
  stream_text,     \* SpecStream: the whole response of the single request
  stream_rest,     \* SpecStream: what of it is still to be delivered
  stream_chunks,   \* SpecStream: the number of chunks delivered
  gui,             \* SpecGui: the call stack of the GUI thread, innermost last
  clip_tag         \* SpecGui, history: which kind of scope wrote the clipboard

vars ==
  << output_queue, queue_src, clipboard, popup_window, event_queue, requests,
     nreq, triggers, pastes, notifications, faults, last_clip, last_capture,
     stream_text, stream_rest, stream_chunks, gui, clip_tag >>

step_vars == << gui, clip_tag >>

stream_vars == << stream_text, stream_rest, stream_chunks >>

Reqs == 1..MaxRequests

IdleRequest ==
  [ pc |-> "idle", option |-> "", selected_text |-> <<>>, custom_change |-> None,
    called |-> FALSE, cancelled |-> FALSE, superseded |-> FALSE,
    response |-> <<>>, late |-> 0 ]

ClosedPopup == [ open |-> FALSE, selected_text |-> <<>> ]

NoClip ==
  [ op |-> "none", before |-> <<>>, after |-> <<>>, raised |-> FALSE,
    failed |-> "none", propagated |-> FALSE ]

NoCapture == [ done |-> FALSE, selection |-> <<>>, returned |-> <<>>, raised |-> FALSE ]

\* __init__, lines 31-48, with a configuration present (lines 56-70).
AppInit ==
  /\ output_queue = <<>>
  /\ queue_src = {}
  /\ clipboard = ClipInit
  /\ popup_window = ClosedPopup
  /\ event_queue = <<>>
  /\ requests = [ r \in Reqs |-> IdleRequest ]
  /\ nreq = 0
  /\ triggers = 0
  /\ pastes = <<>>
  /\ notifications = <<>>
  /\ faults = 0
  /\ last_clip = NoClip
  /\ last_capture = NoCapture
  /\ gui = <<>>
  /\ clip_tag = "user"

Init ==
  /\ AppInit
  /\ stream_text = <<>>
  /\ stream_rest = <<>>
  /\ stream_chunks = 0

\* The clipboard call of an operation that raises: 0 is none of them.
FaultPoints(n) == IF faults < MaxFaults THEN 0..n ELSE {0}

\* ------------------------------------------------------------- GUI thread
\* replace_text, lines 344-401, for the chunk new_text emitted by request r;
\* f is the clipboard call that raises: 1 the backup (372), 2 the write
\* (376), 3 the restore (395). gone, the requests superseded so far, is only
\* recorded in the histories.
replace_text(new_text, r, gone, f) ==
  IF new_text = <<>>
  THEN UNCHANGED << output_queue, queue_src, clipboard, pastes, notifications,
                    faults, last_clip >>
  ELSE
    LET queue == output_queue \o new_text
        src == queue_src \cup {r}
        cleaned_text == rstrip_newline(queue)
        stale == r \in gone
        paste == [ text |-> cleaned_text, req |-> r, stale |-> stale, src |-> src ]
    IN
    CASE decision(queue) = "report" ->
           /\ output_queue' = queue
           /\ queue_src' = src
           /\ notifications' = Append(notifications,
                [ kind |-> "incompatible", req |-> r, stale |-> stale,
                  pasted |-> Len(pastes) ])
           /\ UNCHANGED << clipboard, pastes, faults, last_clip >>
      [] decision(queue) = "hold" ->
           /\ output_queue' = queue
           /\ queue_src' = src
           /\ UNCHANGED << clipboard, pastes, notifications, faults, last_clip >>
      [] decision(queue) = "paste" /\ f = 0 ->
           /\ clipboard' = clipboard
           /\ pastes' = Append(pastes, paste)
           /\ output_queue' = <<>>
           /\ queue_src' = {}
           /\ last_clip' = [ op |-> "replace", before |-> clipboard,
                             after |-> clipboard, raised |-> FALSE,
                             failed |-> "none", propagated |-> FALSE ]
           /\ UNCHANGED << notifications, faults >>
      [] decision(queue) = "paste" /\ f \in {1, 2} ->
           /\ output_queue' = queue
           /\ queue_src' = src
           /\ faults' = faults + 1
           /\ last_clip' = [ op |-> "replace", before |-> clipboard,
                             after |-> clipboard, raised |-> TRUE,
                             failed |-> IF f = 1 THEN "backup" ELSE "write",
                             propagated |-> FALSE ]
           /\ UNCHANGED << clipboard, pastes, notifications >>
      [] decision(queue) = "paste" /\ f = 3 ->
           /\ clipboard' = cleaned_text
           /\ pastes' = Append(pastes, paste)
           /\ output_queue' = queue
           /\ queue_src' = src
           /\ faults' = faults + 1
           /\ last_clip' = [ op |-> "replace", before |-> clipboard,
                             after |-> cleaned_text, raised |-> TRUE,
                             failed |-> "restore", propagated |-> FALSE ]
           /\ UNCHANGED << notifications >>

Event(type, r, text, kind) == [ type |-> type, req |-> r, text |-> text, kind |-> kind ]

HeadIs(type) == event_queue # <<>> /\ Head(event_queue).type = type

\* The provider's cancel() (aiprovider, not in src): the request that is
\* streaming is told to stop; a thread that has not yet called get_response has
\* nothing to cancel. Every request that exists is from now on superseded.
cancel(reqs) ==
  [ r \in Reqs |->
      [ reqs[r] EXCEPT !.cancelled = @ \/ reqs[r].pc = "streaming",
                       !.superseded = @ \/ reqs[r].pc # "idle" ] ]

\* The listener thread's on_activate, lines 116-118: the signal is queued.
HotkeyPress ==
  /\ triggers < MaxTriggers
  /\ Len(event_queue) < MaxQueue
  /\ triggers' = triggers + 1
  /\ event_queue' = Append(event_queue, Event("hotkey", 0, <<>>, ""))
  /\ UNCHANGED << output_queue, queue_src, clipboard, popup_window, requests, nreq,
                  pastes, notifications, faults, last_clip, last_capture, stream_vars, step_vars >>

\* on_hotkey_pressed, lines 150-161 (current_provider is set: lines 62-65).
on_hotkey_pressed ==
  /\ HeadIs("hotkey")
  /\ requests' = cancel(requests)
  /\ output_queue' = <<>>
  /\ queue_src' = {}
  /\ event_queue' = Append(Tail(event_queue), Event("popup", 0, <<>>, ""))
  /\ UNCHANGED << clipboard, popup_window, nreq, triggers, pastes, notifications,
                  faults, last_clip, last_capture, stream_vars, step_vars >>

\* clear_clipboard, lines 252-260: an exception of the write is logged, and the
\* clipboard keeps what it held.
clear_clipboard(clip, raises) == IF raises THEN clip ELSE <<>>

\* get_selected_text, lines 216-250, with selection selected in the foreground
\* application; f is the clipboard call that raises: 1 the backup (221), 2 the
\* clearing write (258), 3 the read (244), 4 the restore (248). Ctrl+C puts a
\* non-empty selection on the clipboard and otherwise leaves it alone. No
\* try/finally surrounds the calls: 1, 3 and 4 propagate to the caller.
get_selected_text(selection, f) ==
  LET clipboard_backup == clipboard
      cleared == clear_clipboard(clipboard, f = 2)
      copied == IF selection # <<>> THEN selection ELSE cleared
  IN  CASE f = 1 -> [ raised |-> TRUE, returned |-> <<>>, clip |-> clipboard ]
        [] f \in {3, 4} -> [ raised |-> TRUE, returned |-> <<>>, clip |-> copied ]
        [] OTHER -> [ raised |-> FALSE, returned |-> copied, clip |-> clipboard_backup ]

\* The clipboard call of get_selected_text that f stands for.
CaptureCall(f) ==
  CASE f = 1 -> "backup" [] f = 2 -> "clear" [] f = 3 -> "read"
    [] f = 4 -> "restore" [] OTHER -> "none"

\* _show_popup, lines 163-214: the capture is outside the try block, so an
\* exception of it ends the slot before the popup is replaced.
show_popup ==
  /\ HeadIs("popup")
  /\ \E selection \in Selections, f \in FaultPoints(4) :
       LET got == get_selected_text(selection, f) IN
       /\ clipboard' = got.clip
       /\ faults' = IF f = 0 THEN faults ELSE faults + 1
       /\ last_clip' = [ op |-> "capture", before |-> clipboard, after |-> got.clip,
                         raised |-> f # 0, failed |-> CaptureCall(f),
                         propagated |-> got.raised ]
       /\ last_capture' = [ done |-> TRUE, selection |-> selection,
                            returned |-> got.returned, raised |-> got.raised ]
       /\ popup_window' = IF got.raised THEN popup_window
                          ELSE [ open |-> TRUE, selected_text |-> got.returned ]
  /\ event_queue' = Tail(event_queue)
  /\ UNCHANGED << output_queue, queue_src, requests, nreq, triggers, pastes,
                  notifications, stream_vars, step_vars >>

\* The slot of output_ready_signal (line 34) for the oldest queued chunk.
deliver_chunk ==
  /\ HeadIs("chunk")
  /\ LET e == Head(event_queue) IN
     \E f \in FaultPoints(3) :
       replace_text(e.text, e.req, { r \in Reqs : requests[r].superseded }, f)
  /\ event_queue' = Tail(event_queue)
  /\ UNCHANGED << popup_window, requests, nreq, triggers, last_capture, stream_vars, step_vars >>

\* show_message_box, lines 337-342, for a message a worker thread emitted.
show_message_box ==
  /\ HeadIs("message")
  /\ LET e == Head(event_queue) IN
     notifications' = Append(notifications,
       [ kind |-> e.kind, req |-> e.req, stale |-> requests[e.req].superseded,
         pasted |-> Len(pastes) ])
  /\ event_queue' = Tail(event_queue)
  /\ UNCHANGED << output_queue, queue_src, clipboard, popup_window, requests, nreq,
                  triggers, pastes, faults, last_clip, last_capture, stream_vars, step_vars >>

\* process_option, lines 262-267, called by the popup for the option the user
\* picks: the popup passes the text it was created with and closes.
process_option(option, custom_change) ==
  /\ popup_window.open
  /\ nreq < MaxRequests
  /\ nreq' = nreq + 1
  /\ requests' = [ requests EXCEPT ![nreq + 1] =
       [ IdleRequest EXCEPT !.pc = "spawned", !.option = option,
                            !.selected_text = popup_window.selected_text,
                            !.custom_change = custom_change ] ]
  /\ popup_window' = ClosedPopup
  /\ UNCHANGED << output_queue, queue_src, clipboard, event_queue, triggers, pastes,
                  notifications, faults, last_clip, last_capture, stream_vars, step_vars >>

\* ------------------------------------------------------------- worker threads
\* Lines 314-321: the only case that ends without a backend call.
rejects_empty_selection(option, selected_text) ==
  strip(selected_text) = <<>> /\ option # "Custom"

thread_prepare_keeps_queue(r) ==
  /\ requests[r].pc = "spawned"
  /\ IF rejects_empty_selection(requests[r].option, requests[r].selected_text)
     THEN /\ Len(event_queue) < MaxQueue
          /\ event_queue' = Append(event_queue, Event("message", r, <<>>, "select"))
          /\ requests' = [ requests EXCEPT ![r].pc = "done" ]
     ELSE /\ requests' = [ requests EXCEPT ![r].pc = "calling" ]
          /\ UNCHANGED event_queue
  /\ UNCHANGED << output_queue, queue_src, clipboard, popup_window, nreq, triggers,
                  pastes, notifications, faults, last_clip, last_capture, stream_vars, step_vars >>

\* process_option_thread, lines 269-329, up to its write of output_queue: an
\* empty selection with an option other than 'Custom' emits the error message
\* and returns; every other case goes on to line 329.
thread_prepare(r) ==
  /\ requests[r].pc = "spawned"
  /\ IF rejects_empty_selection(requests[r].option, requests[r].selected_text)
     THEN /\ Len(event_queue) < MaxQueue
          /\ event_queue' = Append(event_queue, Event("message", r, <<>>, "select"))
          /\ requests' = [ requests EXCEPT ![r].pc = "done" ]
          /\ UNCHANGED << output_queue, queue_src >>
     ELSE /\ output_queue' = <<>>
          /\ queue_src' = {}
          /\ requests' = [ requests EXCEPT ![r].pc = "calling" ]
          /\ UNCHANGED event_queue
  /\ UNCHANGED << clipboard, popup_window, nreq, triggers, pastes, notifications,
                  faults, last_clip, last_capture, stream_vars, step_vars >>

\* Line 331: the call of current_provider.get_response, which streams.
thread_get_response(r) ==
  /\ requests[r].pc = "calling"
  /\ \E response \in Responses :
       requests' = [ requests EXCEPT ![r].pc = "streaming", ![r].called = TRUE,
                                     ![r].response = response ]
  /\ UNCHANGED << output_queue, queue_src, clipboard, popup_window, event_queue, nreq,
                  triggers, pastes, notifications, faults, last_clip, last_capture,
                  stream_vars, step_vars >>

\* Lines 331-335: get_response raises, and the handler emits the message.
thread_backend_error(r) ==
  /\ requests[r].pc = "calling"
  /\ Len(event_queue) < MaxQueue
  /\ event_queue' = Append(event_queue, Event("message", r, <<>>, "exception"))
  /\ requests' = [ requests EXCEPT ![r].pc = "done", ![r].called = TRUE ]
  /\ UNCHANGED << output_queue, queue_src, clipboard, popup_window, nreq, triggers,
                  pastes, notifications, faults, last_clip, last_capture, stream_vars, step_vars >>

\* get_response (aiprovider, not in src) emits output_ready_signal for its next
\* chunk; the emission is queued to the GUI thread. A cancelled stream may
\* still deliver MaxLate chunks: cancel() is not awaited.
emit_chunk(r) ==
  /\ requests[r].pc = "streaming"
  /\ requests[r].response # <<>>
  /\ requests[r].cancelled => requests[r].late < MaxLate
  /\ Len(event_queue) < MaxQueue
  /\ event_queue' = Append(event_queue,
                           Event("chunk", r, Head(requests[r].response), ""))
  /\ requests' = [ requests EXCEPT
       ![r].response = Tail(@),
       ![r].late = IF requests[r].cancelled THEN @ + 1 ELSE @ ]
  /\ UNCHANGED << output_queue, queue_src, clipboard, popup_window, nreq, triggers,
                  pastes, notifications, faults, last_clip, last_capture, stream_vars, step_vars >>

\* The stream ends: it is exhausted, or the request was cancelled.
end_stream(r) ==
  /\ requests[r].pc = "streaming"
  /\ requests[r].response = <<>> \/ requests[r].cancelled
  /\ requests' = [ requests EXCEPT ![r].pc = "done" ]
  /\ UNCHANGED << output_queue, queue_src, clipboard, popup_window, event_queue, nreq,
                  triggers, pastes, notifications, faults, last_clip, last_capture,
                  stream_vars, step_vars >>

\* ------------------------------------------------------------- the application
Next ==
  \/ HotkeyPress
  \/ on_hotkey_pressed
  \/ show_popup
  \/ deliver_chunk
  \/ show_message_box
  \/ \E in \in OptionInputs : process_option(in[1], in[2])
  \/ \E r \in Reqs : thread_prepare(r)
  \/ \E r \in Reqs : thread_get_response(r)
  \/ \E r \in Reqs : thread_backend_error(r)
  \/ \E r \in Reqs : emit_chunk(r)
  \/ \E r \in Reqs : end_stream(r)

Spec == Init /\ [][Next]_vars

\* ------------------------------------------------------------- one stream
\* One request, started by thread_get_response on a fresh output_queue, whose
\* whole response is stream_text.
StreamRequest ==
  [ IdleRequest EXCEPT !.pc = "streaming", !.option = "Relecture",
                       !.selected_text = << "a" >>, !.called = TRUE ]

StreamInit ==
  /\ output_queue = <<>>
  /\ queue_src = {}
  /\ clipboard = ClipInit
  /\ popup_window = ClosedPopup
  /\ event_queue = <<>>
  /\ requests = [ r \in Reqs |-> IF r = 1 THEN StreamRequest ELSE IdleRequest ]
  /\ nreq = 1
  /\ triggers = 1
  /\ pastes = <<>>
  /\ notifications = <<>>
  /\ faults = 0
  /\ last_clip = NoClip
  /\ last_capture = NoCapture
  /\ gui = <<>>
  /\ clip_tag = "user"
  /\ stream_text \in StreamTexts
  /\ stream_rest = stream_text
  /\ stream_chunks = 0

\* The backend delivers the next chunk, of any length, and replace_text runs on
\* it before the next one: the chunks of one request arrive in order.
stream_chunk ==
  /\ stream_rest # <<>>
  /\ Len(pastes) < MaxPastes
  /\ \E n \in 1..Len(stream_rest), f \in FaultPoints(3) :
       /\ replace_text(SubSeq(stream_rest, 1, n), 1, {}, f)
       /\ stream_rest' = SubSeq(stream_rest, n + 1, Len(stream_rest))
  /\ stream_chunks' = IF stream_chunks < ChunkCountCap THEN stream_chunks + 1
                      ELSE stream_chunks
  /\ UNCHANGED << popup_window, event_queue, requests, nreq, triggers, last_capture,
                  stream_text, step_vars >>

StreamNext == stream_chunk

SpecStream == StreamInit /\ [][StreamNext]_vars

\* ------------------------------------------------------------- statement by statement
\* The GUI thread at the grain of its statements, so that the other threads'
\* steps fall between them. gui is its call stack: one frame per slot that is
\* running, with the statement it is about to execute (pc) and its locals. The
\* Qt event loop dispatches the next queued event when no slot is running, and
\* also inside QMessageBox.warning (line 342), whose modal dialog runs an event
\* loop of its own until it is closed. time.sleep (lines 241, 392) dispatches
\* nothing. clip_tag tells whether the clipboard holds the user's content or the
\* temporary content of a capture or of a paste.
Frame(pc, new_text, r) ==
  [ pc |-> pc, new_text |-> new_text, req |-> r, selected_text |-> <<>>,
    clipboard_backup |-> <<>>, backup_tag |-> "none", queue |-> <<>> ]

Top == gui[Len(gui)]

Return == SubSeq(gui, 1, Len(gui) - 1)

Goto(pc) == [ gui EXCEPT ![Len(gui)].pc = pc ]

Running(pc) == gui # <<>> /\ Top.pc = pc

InEventLoop == IF gui = <<>> THEN TRUE ELSE Top.pc = "msg_exec"

\* A queued event of this type is dispatched to its slot.
Dispatch(type) == HeadIs(type) /\ InEventLoop /\ Len(gui) < MaxDepth - 1

\* A clipboard call that may raise.
Raises == { f = 1 : f \in FaultPoints(1) }

gui_on_hotkey_pressed == InEventLoop /\ on_hotkey_pressed

gui_process_option ==
  /\ InEventLoop
  /\ \E in \in OptionInputs : process_option(in[1], in[2])

\* _show_popup is dispatched and get_selected_text takes its backup (line 221).
get_selected_text_backup ==
  /\ Dispatch("popup")
  /\ event_queue' = Tail(event_queue)
  /\ \E raises \in Raises :
       IF raises
       THEN /\ faults' = faults + 1
            /\ UNCHANGED gui
       ELSE /\ gui' = Append(gui,
                 [ Frame("cap_copy", <<>>, 0) EXCEPT
                     !.clipboard_backup = clipboard, !.backup_tag = clip_tag ])
            /\ UNCHANGED faults
  /\ UNCHANGED << output_queue, queue_src, clipboard, popup_window, requests, nreq,
                  triggers, pastes, notifications, last_clip, last_capture,
                  stream_vars, clip_tag >>

\* Lines 225-241: clear_clipboard, Ctrl+C and the wait; the foreground
\* application copies its selection, if it has one.
get_selected_text_copy ==
  /\ Running("cap_copy")
  /\ \E raises \in Raises, selection \in Selections :
       /\ clipboard' = IF selection # <<>> THEN selection
                       ELSE clear_clipboard(clipboard, raises)
       /\ clip_tag' = IF raises /\ selection = <<>> THEN clip_tag ELSE "capture"
       /\ faults' = IF raises THEN faults + 1 ELSE faults
  /\ gui' = Goto("cap_read")
  /\ UNCHANGED << output_queue, queue_src, popup_window, event_queue, requests, nreq,
                  triggers, pastes, notifications, last_clip, last_capture,
                  stream_vars >>

\* Line 244: the read of the selection; its exception ends _show_popup.
get_selected_text_read ==
  /\ Running("cap_read")
  /\ \E raises \in Raises :
       IF raises
       THEN /\ faults' = faults + 1
            /\ gui' = Return
       ELSE /\ gui' = [ gui EXCEPT ![Len(gui)].pc = "cap_restore",
                                   ![Len(gui)].selected_text = clipboard ]
            /\ UNCHANGED faults
  /\ UNCHANGED << output_queue, queue_src, clipboard, popup_window, event_queue,
                  requests, nreq, triggers, pastes, notifications, last_clip,
                  last_capture, stream_vars, clip_tag >>

\* Line 248: the restore; then _show_popup replaces the popup (172-214).
get_selected_text_restore ==
  /\ Running("cap_restore")
  /\ \E raises \in Raises :
       IF raises
       THEN /\ faults' = faults + 1
            /\ UNCHANGED << clipboard, clip_tag, popup_window >>
       ELSE /\ clipboard' = Top.clipboard_backup
            /\ clip_tag' = Top.backup_tag
            /\ popup_window' = [ open |-> TRUE, selected_text |-> Top.selected_text ]
            /\ UNCHANGED faults
  /\ gui' = Return
  /\ UNCHANGED << output_queue, queue_src, event_queue, requests, nreq, triggers,
                  pastes, notifications, last_clip, last_capture, stream_vars >>

\* replace_text is dispatched for the oldest queued chunk and appends it (352).
replace_text_append ==
  /\ Dispatch("chunk")
  /\ event_queue' = Tail(event_queue)
  /\ LET e == Head(event_queue) IN
     IF e.text = <<>>
     THEN UNCHANGED << output_queue, queue_src, gui >>
     ELSE /\ output_queue' = output_queue \o e.text
          /\ queue_src' = queue_src \cup {e.req}
          /\ gui' = Append(gui, [ Frame("rep_decide", e.text, e.req) EXCEPT
                                    !.queue = output_queue \o e.text ])
  /\ UNCHANGED << clipboard, popup_window, requests, nreq, triggers, pastes,
                  notifications, faults, last_clip, last_capture, stream_vars,
                  clip_tag >>

\* Lines 353-367: the sentinel is reported by a direct call of the slot
\* show_message_box (357, a signal emitted on the receiver's thread), a
\* possible prefix of it is held, anything else goes on to the paste.
replace_text_decide ==
  /\ Running("rep_decide")
  /\ CASE decision(output_queue) = "report" ->
            /\ notifications' = Append(notifications,
                 [ kind |-> "incompatible", req |-> Top.req,
                   stale |-> requests[Top.req].superseded, pasted |-> Len(pastes) ])
            /\ gui' = Append(Goto("rep_return"), Frame("msg_exec", <<>>, Top.req))
       [] decision(output_queue) = "hold" ->
            /\ gui' = Return
            /\ UNCHANGED notifications
       [] decision(output_queue) = "paste" ->
            /\ gui' = Goto("rep_backup")
            /\ UNCHANGED notifications
  /\ UNCHANGED << output_queue, queue_src, clipboard, popup_window, event_queue,
                  requests, nreq, triggers, pastes, faults, last_clip, last_capture,
                  stream_vars, clip_tag >>

\* Line 372: the backup; an exception is caught at 398.
replace_text_backup ==
  /\ Running("rep_backup")
  /\ \E raises \in Raises :
       IF raises
       THEN /\ faults' = faults + 1
            /\ gui' = Return
       ELSE /\ gui' = [ gui EXCEPT ![Len(gui)].pc = "rep_write",
                                   ![Len(gui)].clipboard_backup = clipboard,
                                   ![Len(gui)].backup_tag = clip_tag ]
            /\ UNCHANGED faults
  /\ UNCHANGED << output_queue, queue_src, clipboard, popup_window, event_queue,
                  requests, nreq, triggers, pastes, notifications, last_clip,
                  last_capture, stream_vars, clip_tag >>

\* Lines 375-392: output_queue is read again and put on the clipboard; then
\* Ctrl+V and the wait: the foreground application pastes the clipboard.
replace_text_write ==
  /\ Running("rep_write")
  /\ \E raises \in Raises :
       IF raises
       THEN /\ faults' = faults + 1
            /\ gui' = Return
            /\ UNCHANGED << clipboard, clip_tag, pastes >>
       ELSE /\ clipboard' = rstrip_newline(output_queue)
            /\ clip_tag' = "paste"
            /\ pastes' = Append(pastes,
                 [ text |-> rstrip_newline(output_queue), req |-> Top.req,
                   stale |-> requests[Top.req].superseded, src |-> queue_src ])
            /\ gui' = Goto("rep_restore")
            /\ UNCHANGED faults
  /\ UNCHANGED << output_queue, queue_src, popup_window, event_queue, requests, nreq,
                  triggers, notifications, last_clip, last_capture, stream_vars >>

\* Lines 395-399: the restore and the reset of output_queue, which an
\* exception of the restore skips.
replace_text_restore ==
  /\ Running("rep_restore")
  /\ \E raises \in Raises :
       IF raises
       THEN /\ faults' = faults + 1
            /\ UNCHANGED << clipboard, clip_tag, output_queue, queue_src >>
       ELSE /\ clipboard' = Top.clipboard_backup
            /\ clip_tag' = Top.backup_tag
            /\ output_queue' = <<>>
            /\ queue_src' = {}
            /\ UNCHANGED faults
  /\ gui' = Return
  /\ UNCHANGED << popup_window, event_queue, requests, nreq, triggers, pastes,
                  notifications, last_clip, last_capture, stream_vars >>

\* Line 358: the return after the message box of line 357 was closed.
replace_text_return ==
  /\ Running("rep_return")
  /\ gui' = Return
  /\ UNCHANGED << output_queue, queue_src, clipboard, popup_window, event_queue,
                  requests, nreq, triggers, pastes, notifications, faults, last_clip,
                  last_capture, stream_vars, clip_tag >>

\* show_message_box is dispatched for a worker's message and opens its dialog.
show_message_box_exec ==
  /\ Dispatch("message")
  /\ LET e == Head(event_queue) IN
     /\ notifications' = Append(notifications,
          [ kind |-> e.kind, req |-> e.req, stale |-> requests[e.req].superseded,
            pasted |-> Len(pastes) ])
     /\ gui' = Append(gui, Frame("msg_exec", <<>>, e.req))
  /\ event_queue' = Tail(event_queue)
  /\ UNCHANGED << output_queue, queue_src, clipboard, popup_window, requests, nreq,
                  triggers, pastes, faults, last_clip, last_capture, stream_vars,
                  clip_tag >>

\* The user closes the dialog: QMessageBox.warning returns (line 342).
show_message_box_closed ==
  /\ Running("msg_exec")
  /\ gui' = Return
  /\ UNCHANGED << output_queue, queue_src, clipboard, popup_window, event_queue,
                  requests, nreq, triggers, pastes, notifications, faults, last_clip,
                  last_capture, stream_vars, clip_tag >>

GuiNext ==
  \/ HotkeyPress
  \/ gui_on_hotkey_pressed
  \/ gui_process_option
  \/ get_selected_text_backup
  \/ get_selected_text_copy
  \/ get_selected_text_read
  \/ get_selected_text_restore
  \/ replace_text_append
  \/ replace_text_decide
  \/ replace_text_backup
  \/ replace_text_write
  \/ replace_text_restore
  \/ replace_text_return
  \/ show_message_box_exec
  \/ show_message_box_closed
  \/ \E r \in Reqs : thread_prepare(r)
  \/ \E r \in Reqs : thread_get_response(r)
  \/ \E r \in Reqs : thread_backend_error(r)
  \/ \E r \in Reqs : emit_chunk(r)
  \/ \E r \in Reqs : end_stream(r)

SpecGui == Init /\ [][GuiNext]_vars

\* The frames of the GUI thread that are between the backup and the restore of
\* a clipboard scope.
OpenScopes ==
  { i \in DOMAIN gui :
      gui[i].pc \in { "cap_copy", "cap_read", "cap_restore",
                      "rep_write", "rep_restore" } }

\* The GUI thread never has two clipboard scopes open.
ScopesSerialized == Cardinality(OpenScopes) <= 1

\* What of stream_text has been delivered so far.
Delivered == SubSeq(stream_text, 1, Len(stream_text) - Len(stream_rest))

RECURSIVE PastedText(_)
PastedText(ps) == IF ps = <<>> THEN <<>> ELSE ps[1].text \o PastedText(Tail(ps))

NoNewlines(s) == SelectSeq(s, LAMBDA c : c # "\n")

Incompatible == SelectSeq(notifications, LAMBDA n : n.kind = "incompatible")

\* ------------------------------------------------------------- claims
\* C1: only the latest request produces visible output: no paste and no
\* 'incompatible' notification is caused by a chunk of a request that a later
\* hotkey press has superseded.
C1_OnlyLatestRequestVisible ==
  /\ \A i \in DOMAIN pastes : ~pastes[i].stale
  /\ \A i \in DOMAIN notifications :
       notifications[i].kind = "incompatible" => ~notifications[i].stale

\* C2: at most one backend request is active: two requests are never streaming,
\* uncancelled, at the same time.
C2_AtMostOneActiveRequest ==
  Cardinality({ r \in Reqs : requests[r].pc = "streaming" /\ ~requests[r].cancelled }) <= 1

\* C3: a stream that is the sentinel with optional surrounding whitespace, split
\* into chunks in any way, never makes replace_text write the clipboard or paste.
C3_SentinelNeverPasted ==
  stream_text \in SentinelStreams =>
    /\ pastes = <<>>
    /\ clipboard = ClipInit
    /\ last_clip = NoClip

C3_Witness ==
  /\ stream_text \in SentinelStreams
  /\ IsSpace(Head(stream_text))
  /\ IsSpace(stream_text[Len(stream_text)])
  /\ stream_rest = <<>>
  /\ stream_chunks >= 3
  /\ notifications # <<>>

\* C4: such a stream produces exactly one error notification: never more than
\* one, and one once the stream is complete.
C4_ExactlyOneNotification ==
  stream_text \in SentinelStreams =>
    /\ Len(Incompatible) <= 1
    /\ stream_rest = <<>> => Len(Incompatible) = 1

\* C5: after a capture or a replace operation, failed or not, the clipboard
\* holds what it held before the operation.
C5_ClipboardRestored ==
  last_clip.op # "none" => last_clip.after = last_clip.before

\* C6: the chunks of a request are pasted in the order received (compared
\* without the newlines rstrip removes), and once a paste has shown the output
\* not to be a sentinel prefix, every chunk is pasted on arrival: nothing is
\* held back after it.
C6_ForwardedOnArrival ==
  (stream_text \notin SentinelStreams /\ faults = 0) =>
    /\ NoNewlines(PastedText(pastes) \o output_queue) = NoNewlines(Delivered)
    /\ pastes # <<>> /\ Incompatible = <<>> => output_queue = <<>>

\* C7: the output held back for a request is dropped when a new trigger fires
\* and the next request starts on an empty accumulated output, so that no paste
\* holds text that came from chunks of two different requests.
C7_NoMixedPaste ==
  \A i \in DOMAIN pastes : Cardinality(pastes[i].src) <= 1

\* C8: with an empty or whitespace-only selection and no custom instruction,
\* get_response is never called, whatever the option.
C8_NoBackendCallOnEmptySelection ==
  \A r \in Reqs :
    requests[r].called =>
      ~(strip(requests[r].selected_text) = <<>> /\ requests[r].custom_change = None)

\* C9: a capture with nothing selected returns the empty string, never the
\* clipboard content from before the capture.
C9_EmptyCaptureReturnsEmpty ==
  (last_capture.done /\ ~last_capture.raised /\ last_capture.selection = <<>>) =>
    last_capture.returned = <<>>

\* C10: an 'incompatible' notification of a request is never preceded by a
\* paste of that request.
C10_NoPasteBeforeSentinelError ==
  \A i \in DOMAIN notifications :
    notifications[i].kind = "incompatible" => notifications[i].pasted = 0

\* C11: an exception of the restoring clipboard write is swallowed in both
\* clipboard operations: it never propagates out of get_selected_text or out of
\* replace_text.
C11_RestoreFailureSwallowed ==
  last_clip.failed = "restore" => ~last_clip.propagated

\* C12: no failure leaves the request state stuck: whatever an earlier request
\* left in output_queue (a reported sentinel, a text whose paste raised), the
\* handling of the next trigger empties it, and so does the thread of the next
\* request before it calls the backend: the request starts like a first one.
C12_FailureLeavesNothingStuck ==
  [][ /\ (HeadIs("hotkey") /\ Len(event_queue') = Len(event_queue)
           /\ event_queue' # event_queue) => output_queue' = <<>>
      /\ \A r \in Reqs :
           (requests[r].pc = "spawned" /\ requests'[r].pc = "calling")
             => output_queue' = <<>> ]_vars

C12_Witness ==
  /\ \E i \in DOMAIN notifications :
       notifications[i].kind = "incompatible" /\ notifications[i].req = 1
  /\ requests[1].superseded
  /\ requests[2].pc = "calling"
  /\ output_queue = <<>>

\* C13: once the accumulated output has matched the sentinel, nothing of that
\* request is pasted: no paste follows an 'incompatible' notification.
C13_SuppressedIsTerminal ==
  \A i \in DOMAIN notifications :
    notifications[i].kind = "incompatible" => Len(pastes) = notifications[i].pasted

\* C14: once text of a request has been pasted, every later chunk is pasted on
\* arrival: none is held back, and none is reported as the sentinel.
C14_ForwardingIsTerminal ==
  (faults = 0 /\ pastes # <<>>) =>
    /\ output_queue = <<>>
    /\ \A i \in DOMAIN notifications : notifications[i].pasted = 0

\* C15: when the stream of a request ends with text still held back that is not
\* the sentinel, that text is pasted: nothing stays in output_queue.
C15_FinalFlush ==
  (stream_rest = <<>> /\ Incompatible = <<>> /\ faults = 0) => output_queue = <<>>

IsPrefixOf(a, b) == Len(a) <= Len(b) /\ SubSeq(b, 1, Len(a)) = a

\* The chunk that a step of the stream delivers.
StepChunk == SubSeq(stream_rest, 1, Len(stream_rest) - Len(stream_rest'))

C19_NoTextPastedTwice ==
  IsPrefixOf(NoNewlines(PastedText(pastes)), NoNewlines(Delivered))

\* C20: for a request that ended neither suppressed nor held, the texts pasted,
\* in order, are the whole response with only its trailing newlines removed.
C20_NoInteriorTextLost ==
  ( /\ stream_rest = <<>>
    /\ Incompatible = <<>>
    /\ output_queue = <<>>
    /\ faults = 0 )
    => PastedText(pastes) = rstrip_newline(stream_text)

\* C16: only the GUI thread writes output_queue, so that no write of a worker
\* falls inside replace_text: from its append (352) to its read for the paste
\* (375), output_queue is what the append left.
C16_OnlyGuiThreadWritesQueue ==
  \A i \in DOMAIN gui :
    gui[i].pc \in { "rep_decide", "rep_backup", "rep_write" }
      => output_queue = gui[i].queue

\* C17: the clipboard scopes of the GUI thread never overlap, so that the backup
\* a scope takes is never the temporary content another scope wrote.
C17_ScopesNeverOverlap ==
  /\ ScopesSerialized
  /\ \A i \in DOMAIN gui : gui[i].backup_tag \in { "none", "user" }

====
